---------------------------- MODULE Spec2Model ----------------------------
(* A model of batch_processing/transformers.py: the BatchTransformer job   *)
(* (configuration, credential resolution, the read / transform / save      *)
(* sequence of run()) and the top-10 aggregation of TaxiBatchTransformer.  *)
EXTENDS Integers, Sequences, FiniteSets, TLC

VARIABLES
    s3_file,      \* the parsed S3 configuration file: the set of keys it holds
    psql_file,    \* the parsed PostgreSQL configuration file
    passfile,     \* the secrets file on disk: [exists, content]
    raw,          \* the lines of the raw data file in the bucket
    cls,          \* the class that was instantiated
    psql_config,  \* self.psql_config
    file_opened,  \* whether open(passfile) was executed
    data,         \* self.data
    table,        \* what write.jdbc has written, one entry per write
    pc,           \* position of the job: the last stage that completed
    trace,        \* the stages entered and left, in order
    error         \* the exception that left the program, "" when none

vars == <<s3_file, psql_file, passfile, raw, cls, psql_config, file_opened,
          data, table, pc, trace, error>>

--------------------------------------------------------------------------
(* Bounds of the model. *)

\* longest secrets file, in characters
MaxFileLen == 3
\* most configuration keys left out of the configuration files together
MaxMissing == 1
\* most lines of the raw file beyond the one-per-sub-block base lines
MaxExtra == 1
\* largest passenger count of one raw line
MaxPassengers == 2

--------------------------------------------------------------------------
(* Python strings are sequences of one-character strings. *)

Chars == {"u", "p", ":", " ", "\n"}

RECURSIVE StringsUpTo(_)
StringsUpTo(n) ==
    IF n = 0 THEN {<<>>}
    ELSE LET shorter == StringsUpTo(n - 1)
         IN  shorter \cup {Append(s, c) : s \in {t \in shorter : Len(t) = n - 1}, c \in Chars}

IsSpace(c) == c \in {" ", "\n"}

\* file.readline(): the text up to and including the first newline
RECURSIVE readline(_)
readline(content) ==
    IF content = <<>> THEN <<>>
    ELSE IF Head(content) = "\n" THEN <<"\n">>
    ELSE <<Head(content)>> \o readline(Tail(content))

RECURSIVE lstrip(_)
lstrip(s) ==
    IF s # <<>> /\ IsSpace(Head(s)) THEN lstrip(Tail(s)) ELSE s

RECURSIVE rstrip(_)
rstrip(s) ==
    IF s # <<>> /\ IsSpace(s[Len(s)]) THEN rstrip(SubSeq(s, 1, Len(s) - 1)) ELSE s

\* str.strip()
strip(s) == rstrip(lstrip(s))

\* str.split(":"): the list of fields, always at least one
RECURSIVE split(_)
split(s) ==
    IF \A i \in 1..Len(s) : s[i] # ":" THEN <<s>>
    ELSE LET i == CHOOSE k \in 1..Len(s) :
                      s[k] = ":" /\ \A j \in 1..(k - 1) : s[j] # ":"
         IN  <<SubSeq(s, 1, i - 1)>> \o split(SubSeq(s, i + 1, Len(s)))

\* a faulty variant of LastField: the first field instead of the last
LastFieldFirst(fields) == fields[1]

\* the index [-1] of line 41
LastField(fields) == fields[Len(fields)]

\* fin.readline().strip().split(":")[-1]
PasswordOfLine(line) == LastField(split(strip(line)))

--------------------------------------------------------------------------
(* Configuration. *)

S3Keys == {"BUCKET", "FOLDER", "RAW_DATA_FILE"}
PsqlKeys == {"url", "host", "port", "properties", "passfile", "dbtable", "mode"}

\* the keys get_psql_config reads whatever the properties hold
UrlKeys == {"url", "host", "port"}
\* the keys save_to_postgresql reads
SinkKeys == {"url", "dbtable", "mode", "properties"}

NoConfig == [keys |-> {}, has_password |-> FALSE, password |-> <<>>]

\* line 38: "password" not in config["properties"].keys()
NeedsPassfile(config) == ~config.has_password

\* get_psql_config: the configuration it returns, or the exception it raises
get_psql_config(config, secrets) ==
    IF ~(UrlKeys \subseteq config.keys) \/ "properties" \notin config.keys
    THEN [error |-> "KeyError", config |-> NoConfig, opened |-> FALSE]
    ELSE IF ~NeedsPassfile(config)
    THEN [error |-> "", config |-> config, opened |-> FALSE]
    ELSE IF "passfile" \notin config.keys
    THEN [error |-> "KeyError", config |-> NoConfig, opened |-> FALSE]
    ELSE IF ~secrets.exists
    THEN [error |-> "IOError", config |-> NoConfig, opened |-> TRUE]
    ELSE [error |-> "",
          config |-> [config EXCEPT !.has_password = TRUE,
                                    !.password = PasswordOfLine(readline(secrets.content))],
          opened |-> TRUE]

--------------------------------------------------------------------------
(* Records. A raw line is the sequence of its fields; a line with a field  *)
(* missing is malformed.                                                   *)

\* the 10 of line 109
TopK == 10

\* sub-blocks of one group in the inputs: one more than the cut keeps
NumSubBlocks == TopK + 1

Schema == <<"block_id", "time_slot", "sub_block_id", "passengers">>

\* the drop signal of the cleaner
None == [dropped |-> TRUE]

\* helpers.clean_data: the structured record of a line, None for a malformed one
clean_data(line, schema) ==
    IF Len(line) = Len(schema)
    THEN [block_id |-> line[1], time_slot |-> line[2],
          sub_block_id |-> line[3], passengers |-> line[4]]
    ELSE None

\* a faulty variant of Kept: nothing is filtered out
KeptAll(x) == TRUE

\* line 77: lambda x: x is not None
Kept(x) == x # None

\* BatchTransformer.spark_transform, lines 76-77
BaseTransform(lines) ==
    LET cleaned == [i \in DOMAIN lines |-> clean_data(lines[i], Schema)]
    IN  SelectSeq(cleaned, Kept)

\* The order in which the engine hands over the elements of a shuffled
\* collection is not fixed by the program: these are the orders modelled.
ShuffleOrders == {"fifo", "lifo", "rot"}

Reverse(s) == [i \in DOMAIN s |-> s[Len(s) + 1 - i]]

Shuffle(s, order) ==
    IF s = <<>> THEN s
    ELSE CASE order = "fifo" -> s
           [] order = "lifo" -> Reverse(s)
           [] order = "rot"  -> Append(Tail(s), Head(s))

\* line 105: the key and the value of a cleaned record
KeyValue(x) == <<<<x.block_id, x.time_slot, x.sub_block_id>>, x.passengers>>

\* line 106: lambda x,y : x+y
Combine(x, y) == x + y

\* reduceByKey: the values of one key combined, keys in the order they come
RECURSIVE reduceByKey(_, _)
reduceByKey(pairs, acc) ==
    IF pairs = <<>> THEN acc
    ELSE LET kv == Head(pairs)
             at == {i \in DOMAIN acc : acc[i][1] = kv[1]}
         IN  IF at = {}
             THEN reduceByKey(Tail(pairs), Append(acc, kv))
             ELSE LET i == CHOOSE j \in at : TRUE
                  IN  reduceByKey(Tail(pairs),
                                  [acc EXCEPT ![i] = <<kv[1], Combine(acc[i][2], kv[2])>>])

\* line 107: re-keyed by (block_id, time_slot)
ReKey(x) == <<<<x[1][1], x[1][2]>>, <<x[1][3], x[2]>>>>

\* groupByKey: the values of one key collected, in the order they come
RECURSIVE groupByKey(_, _)
groupByKey(pairs, acc) ==
    IF pairs = <<>> THEN acc
    ELSE LET kv == Head(pairs)
             at == {i \in DOMAIN acc : acc[i][1] = kv[1]}
         IN  IF at = {}
             THEN groupByKey(Tail(pairs), Append(acc, <<kv[1], <<kv[2]>>>>))
             ELSE LET i == CHOOSE j \in at : TRUE
                  IN  groupByKey(Tail(pairs),
                                 [acc EXCEPT ![i] = <<kv[1], Append(acc[i][2], kv[2])>>])

\* a faulty variant of SortKey: ascending instead of descending
SortKeyAscending(x) == x[2]

\* line 109: key=lambda x: -x[1]
SortKey(x) == 0 - x[2]

\* one step of a stable sort: x goes after every element whose key is not larger
Insert(sorted, x) ==
    LET before == {i \in DOMAIN sorted : SortKey(sorted[i]) <= SortKey(x)}
        n == Cardinality(before)
    IN  SubSeq(sorted, 1, n) \o <<x>> \o SubSeq(sorted, n + 1, Len(sorted))

\* sorted(vals, key=...): Python's sort is stable
RECURSIVE sorted(_, _)
sorted(vals, acc) ==
    IF vals = <<>> THEN acc ELSE sorted(Tail(vals), Insert(acc, Head(vals)))

\* a faulty variant of Top: the slice keeps one entry too many
TopOneMore(vals) == SubSeq(vals, 1, IF Len(vals) < TopK + 1 THEN Len(vals) ELSE TopK + 1)

\* the slice [:10] of line 109
Top(vals) == SubSeq(vals, 1, IF Len(vals) < TopK THEN Len(vals) ELSE TopK)

\* a faulty variant of Ranked: the slice is taken before the sort
RankedAfterCut(vals) == sorted(Top(vals), <<>>)

\* line 109: sorted(vals, key=lambda x: -x[1])[:10]
Ranked(vals) == Top(sorted(vals, <<>>))

\* line 110: the output record of one group
OutputRecord(x) ==
    [block_id |-> x[1][1], time_slot |-> x[1][2],
     subblocks |-> [i \in DOMAIN x[2] |-> x[2][i][1]],
     passengers |-> [i \in DOMAIN x[2] |-> x[2][i][2]]]

\* TaxiBatchTransformer.spark_transform, lines 104-110, on the cleaned records
TaxiAggregate(cleaned, o1, o2) ==
    LET pairs == [i \in DOMAIN cleaned |-> KeyValue(cleaned[i])]
        sums == reduceByKey(Shuffle(pairs, o1), <<>>)
        rekeyed == [i \in DOMAIN sums |-> ReKey(sums[i])]
        groups == groupByKey(Shuffle(rekeyed, o2), <<>>)
        top == [i \in DOMAIN groups |-> <<groups[i][1], Ranked(groups[i][2])>>]
    IN  [i \in DOMAIN top |-> OutputRecord(top[i])]

\* spark_transform of the class: the new self.data, or the exception raised
\* (line 105 subscripts every element, and None cannot be subscripted)
spark_transform(class, lines, o1, o2) ==
    LET cleaned == BaseTransform(lines)
    IN  IF class = "BatchTransformer"
        THEN [error |-> "", data |-> cleaned]
        ELSE IF \E i \in DOMAIN cleaned : cleaned[i] = None
        THEN [error |-> "TypeError", data |-> <<>>]
        ELSE [error |-> "", data |-> TaxiAggregate(cleaned, o1, o2)]

--------------------------------------------------------------------------
(* The job: the constructor, then the three calls of run().                *)

Classes == {"BatchTransformer", "TaxiBatchTransformer"}

\* a faulty variant of RunOrder: the transform is called before the read
RunOrderSwapped == <<"TRANSFORM", "SOURCE_READ", "SINK_WRITE">>

\* lines 84-86: the calls of run(), in order
RunOrder == <<"SOURCE_READ", "TRANSFORM", "SINK_WRITE">>

\* where the job stands when the call of `stage` is the next statement of run()
Before(stage) ==
    LET i == CHOOSE k \in DOMAIN RunOrder : RunOrder[k] = stage
    IN  IF i = 1 THEN "INIT" ELSE RunOrder[i - 1]

\* where the job stands when the call of `stage` has returned
After(stage) ==
    IF stage = RunOrder[Len(RunOrder)] THEN "DONE" ELSE stage

\* a faulty variant of Raised: the exception is swallowed and run() goes on
RaisedSwallowed(stage) == After(stage)

\* run() and __init__ hold no try/except: an exception raised in a call leaves
\* the program
Raised(stage) == "ABORTED"

Start(stage) == <<stage, "start">>
End(stage) == <<stage, "end">>

\* __init__, lines 22-26
Construct ==
    /\ pc = "new"
    /\ LET r == get_psql_config(psql_file, passfile)
       IN  /\ psql_config' = r.config
           /\ file_opened' = r.opened
           /\ error' = r.error
           /\ pc' = IF r.error = "" THEN "INIT" ELSE Raised("INIT")
    /\ UNCHANGED <<s3_file, psql_file, passfile, raw, cls, data, table, trace>>

\* read_from_s3, lines 51-54; the engine or the bucket may fail
ReadFromS3 ==
    /\ pc = Before("SOURCE_READ")
    /\ \E ok \in BOOLEAN :
         IF ~(S3Keys \subseteq s3_file)
         THEN /\ trace' = Append(trace, Start("SOURCE_READ"))
              /\ error' = "KeyError"
              /\ pc' = Raised("SOURCE_READ")
              /\ data' = data
         ELSE IF ~ok
         THEN /\ trace' = Append(trace, Start("SOURCE_READ"))
              /\ error' = "SourceReadError"
              /\ pc' = Raised("SOURCE_READ")
              /\ data' = data
         ELSE /\ trace' = trace \o <<Start("SOURCE_READ"), End("SOURCE_READ")>>
              /\ error' = error
              /\ pc' = After("SOURCE_READ")
              /\ data' = raw
    /\ UNCHANGED <<s3_file, psql_file, passfile, raw, cls, psql_config, file_opened, table>>

\* spark_transform of the instantiated class, lines 71-77 and 97-110
SparkTransform ==
    /\ pc = Before("TRANSFORM")
    /\ \E ok \in BOOLEAN, o1 \in ShuffleOrders, o2 \in ShuffleOrders :
         LET r == spark_transform(cls, data, o1, o2)
         IN  IF ~ok \/ r.error # ""
             THEN /\ trace' = Append(trace, Start("TRANSFORM"))
                  /\ error' = IF r.error # "" THEN r.error ELSE "TransformError"
                  /\ pc' = Raised("TRANSFORM")
                  /\ data' = data
             ELSE /\ trace' = trace \o <<Start("TRANSFORM"), End("TRANSFORM")>>
                  /\ error' = error
                  /\ pc' = After("TRANSFORM")
                  /\ data' = r.data
    /\ UNCHANGED <<s3_file, psql_file, passfile, raw, cls, psql_config, file_opened, table>>

\* save_to_postgresql, lines 62-68; the database may fail
SaveToPostgresql ==
    /\ pc = Before("SINK_WRITE")
    /\ \E ok \in BOOLEAN :
         IF ~(SinkKeys \subseteq psql_config.keys)
         THEN /\ trace' = Append(trace, Start("SINK_WRITE"))
              /\ error' = "KeyError"
              /\ pc' = Raised("SINK_WRITE")
              /\ table' = table
         ELSE IF ~ok
         THEN /\ trace' = Append(trace, Start("SINK_WRITE"))
              /\ error' = "SinkWriteError"
              /\ pc' = Raised("SINK_WRITE")
              /\ table' = table
         ELSE /\ trace' = trace \o <<Start("SINK_WRITE"), End("SINK_WRITE")>>
              /\ error' = error
              /\ pc' = After("SINK_WRITE")
              /\ table' = Append(table, data)
    /\ UNCHANGED <<s3_file, psql_file, passfile, raw, cls, psql_config, file_opened, data>>

Next == Construct \/ ReadFromS3 \/ SparkTransform \/ SaveToPostgresql

--------------------------------------------------------------------------
(* Initial states. *)

InitJobState ==
    /\ psql_config = NoConfig
    /\ file_opened = FALSE
    /\ data = <<>>
    /\ table = <<>>
    /\ pc = "new"
    /\ trace = <<>>
    /\ error = ""

\* a password given in the connection properties
ExplicitPassword == <<"p", " ">>

SecretsFiles ==
    {[exists |-> FALSE, content |-> <<>>]}
        \cup {[exists |-> TRUE, content |-> c] : c \in StringsUpTo(MaxFileLen)}

MissingKeys == {m \in SUBSET (S3Keys \cup PsqlKeys) : Cardinality(m) <= MaxMissing}

\* the job with any configuration and any secrets file, on a one-line bucket
InitJob ==
    /\ \E m \in MissingKeys, given \in BOOLEAN :
         /\ s3_file = S3Keys \ m
         /\ psql_file = [keys |-> PsqlKeys \ m, has_password |-> given,
                         password |-> IF given THEN ExplicitPassword ELSE <<>>]
    /\ passfile \in SecretsFiles
    /\ raw = <<<<1, 1, 1, 1>>>>
    /\ cls \in Classes
    /\ InitJobState

SpecJob == InitJob /\ [][Next]_vars

\* one line of passengers 1 for each of the first n sub-blocks of group (1, 1)
BaseLines(n) == [i \in 1..n |-> <<1, 1, i, 1>>]

\* the lines that may follow: any sub-block of group (1, 1), a sub-block of two
\* other groups, and a line without its passengers field
ExtraLines ==
    {<<1, 1, s, p>> : s \in 1..NumSubBlocks, p \in 1..MaxPassengers}
        \cup {<<2, 1, 1, 1>>, <<1, 2, 1, 1>>}
        \cup {<<1, 1, 1>>}

RECURSIVE SeqsUpTo(_, _)
SeqsUpTo(S, n) ==
    IF n = 0 THEN {<<>>}
    ELSE LET shorter == SeqsUpTo(S, n - 1)
         IN  shorter \cup {Append(s, x) : s \in {t \in shorter : Len(t) = n - 1}, x \in S}

Inputs ==
    {BaseLines(n) \o extra : n \in 0..NumSubBlocks, extra \in SeqsUpTo(ExtraLines, MaxExtra)}

\* the job with a complete configuration, on any of the input files
InitData ==
    /\ s3_file = S3Keys
    /\ psql_file = [keys |-> PsqlKeys, has_password |-> TRUE, password |-> ExplicitPassword]
    /\ passfile = [exists |-> FALSE, content |-> <<>>]
    /\ raw \in Inputs
    /\ cls \in Classes
    /\ InitJobState

SpecData == InitData /\ [][Next]_vars

--------------------------------------------------------------------------
(* What the claims speak of, stated on the raw file itself.                *)

\* self.data holds the result of the transform of the named class
Transformed(class) == cls = class /\ pc \in {"TRANSFORM", "DONE"}

\* the lines of the raw file that carry every field
ValidLines == {i \in DOMAIN raw : Len(raw[i]) = 4}

LinesOfGroup(g) == {i \in ValidLines : raw[i][1] = g[1] /\ raw[i][2] = g[2]}

LinesOfKey(g, sub) == {i \in LinesOfGroup(g) : raw[i][3] = sub}

GroupsOfInput == {<<raw[i][1], raw[i][2]>> : i \in ValidLines}

SubBlocksOfInput(g) == {raw[i][3] : i \in LinesOfGroup(g)}

RECURSIVE PassengersOfLines(_)
PassengersOfLines(I) ==
    IF I = {} THEN 0
    ELSE LET i == CHOOSE j \in I : TRUE
         IN  raw[i][4] + PassengersOfLines(I \ {i})

\* the summed passengers of a sub-block of a group, over the whole input
TrueSum(g, sub) == PassengersOfLines(LinesOfKey(g, sub))

GroupOf(rec) == <<rec.block_id, rec.time_slot>>

RecordsOfGroup(g) == {i \in DOMAIN data : GroupOf(data[i]) = g}

Emitted(rec) == {rec.subblocks[j] : j \in DOMAIN rec.subblocks}

Smaller(a, b) == IF a < b THEN a ELSE b

\* C1: after the top-10 transform every group of the input has one output
\* record and no other group has one; the record of a group with N distinct
\* sub-blocks lists min(N, 10) distinct sub-blocks of that group, and the
\* passengers reported for each is the sum over all input lines of that
\* (block_id, time_slot, sub_block_id).
C1_TopTenCountsAndSums ==
    Transformed("TaxiBatchTransformer") =>
        /\ \A i \in DOMAIN data : GroupOf(data[i]) \in GroupsOfInput
        /\ \A g \in GroupsOfInput :
             /\ Cardinality(RecordsOfGroup(g)) = 1
             /\ \A i \in RecordsOfGroup(g) :
                  /\ Len(data[i].subblocks) = Smaller(Cardinality(SubBlocksOfInput(g)), 10)
                  /\ Cardinality(Emitted(data[i])) = Len(data[i].subblocks)
                  /\ Emitted(data[i]) \subseteq SubBlocksOfInput(g)
                  /\ Len(data[i].passengers) = Len(data[i].subblocks)
                  /\ \A j \in DOMAIN data[i].subblocks :
                       data[i].passengers[j] = TrueSum(g, data[i].subblocks[j])

\* a group of more than 10 sub-blocks, one of them with two lines to sum
C1_Witness ==
    /\ Transformed("TaxiBatchTransformer")
    /\ \E g \in GroupsOfInput :
         /\ Cardinality(SubBlocksOfInput(g)) > 10
         /\ \E i \in RecordsOfGroup(g) :
              \E j \in DOMAIN data[i].subblocks :
                  Cardinality(LinesOfKey(g, data[i].subblocks[j])) = 2

\* C2: the sub-blocks emitted for a group are the highest by summed
\* passengers: with at most 10 distinct sub-blocks all are emitted, with more
\* than 10 every sub-block left out has a sum less than or equal to the sum of
\* every sub-block emitted.
C2_HighestAreKept ==
    Transformed("TaxiBatchTransformer") =>
        \A i \in DOMAIN data :
            LET g == GroupOf(data[i])
                all == SubBlocksOfInput(g)
                out == Emitted(data[i])
            IN  /\ out \subseteq all
                /\ Cardinality(all) <= 10 => out = all
                /\ Cardinality(all) > 10 =>
                     \A x \in all \ out, y \in out : TrueSum(g, x) <= TrueSum(g, y)

\* a group of more than 10 sub-blocks whose last line in the file is of a
\* sub-block with a larger sum than one that is left out
C2_Witness ==
    /\ Transformed("TaxiBatchTransformer")
    /\ \E i \in DOMAIN data :
         LET g == GroupOf(data[i])
             all == SubBlocksOfInput(g)
             out == Emitted(data[i])
         IN  /\ Cardinality(all) > 10
             /\ Len(raw) \in LinesOfGroup(g)
             /\ raw[Len(raw)][3] \in out
             /\ \E x \in all \ out : TrueSum(g, x) < TrueSum(g, raw[Len(raw)][3])

\* C3: in every output record subblocks and passengers have the same length,
\* passengers is non-increasing, and passengers[i] is the summed passengers
\* of subblocks[i] in the record's group.
C3_AlignedAndDescending ==
    Transformed("TaxiBatchTransformer") =>
        \A i \in DOMAIN data :
            LET rec == data[i]
            IN  /\ Len(rec.subblocks) = Len(rec.passengers)
                /\ \A j \in DOMAIN rec.passengers, k \in DOMAIN rec.passengers :
                     j < k => rec.passengers[j] >= rec.passengers[k]
                /\ \A j \in DOMAIN rec.subblocks :
                     rec.passengers[j] = TrueSum(GroupOf(rec), rec.subblocks[j])

\* a record whose passengers really descend, its largest sum not first in the file
C3_Witness ==
    /\ Transformed("TaxiBatchTransformer")
    /\ \E i \in DOMAIN data :
         /\ Len(data[i].passengers) >= 2
         /\ data[i].passengers[1] > data[i].passengers[Len(data[i].passengers)]
         /\ data[i].subblocks[1] # raw[1][3]

CountIn(seq, x) == Cardinality({i \in DOMAIN seq : seq[i] = x})

\* C9: the base transform yields exactly the cleaned records of the lines the
\* cleaner accepts, each as often as it occurs, and never the drop signal; in
\* the top-10 variant only the accepted lines make groups and sums; and no
\* line makes the transform raise.
C9_DroppedLinesAbsorbed ==
    /\ error # "TypeError"
    /\ Transformed("BatchTransformer") =>
         /\ \A i \in DOMAIN data : data[i] # None
         /\ Len(data) = Cardinality({i \in DOMAIN raw : clean_data(raw[i], Schema) # None})
         /\ \A i \in DOMAIN raw :
              LET rec == clean_data(raw[i], Schema)
              IN  rec # None =>
                    CountIn(data, rec)
                        = Cardinality({k \in DOMAIN raw : clean_data(raw[k], Schema) = rec})
    /\ Transformed("TaxiBatchTransformer") =>
         /\ {GroupOf(data[i]) : i \in DOMAIN data} = GroupsOfInput
         /\ \A i \in DOMAIN data :
              /\ \A j \in DOMAIN data[i].subblocks :
                   LinesOfKey(GroupOf(data[i]), data[i].subblocks[j]) # {}
              /\ \A j \in DOMAIN data[i].passengers :
                   data[i].passengers[j]
                       = PassengersOfLines(LinesOfKey(GroupOf(data[i]), data[i].subblocks[j]))

\* the base transform has run on a file with a malformed line among valid ones
C9_Witness ==
    /\ Transformed("BatchTransformer")
    /\ \E i \in DOMAIN raw : clean_data(raw[i], Schema) = None
    /\ data # <<>>
    /\ Len(data) < Len(raw)

SetOf(seq) == {seq[i] : i \in DOMAIN seq}

\* C10: the output records are the same for every order in which the engine
\* hands over the records of the same input, ties included.
C10_Deterministic ==
    Transformed("TaxiBatchTransformer") =>
        \A o1 \in ShuffleOrders, o2 \in ShuffleOrders :
            SetOf(spark_transform(cls, raw, o1, o2).data) = SetOf(data)

--------------------------------------------------------------------------
(* Credentials, configuration and the sequence of stages.                  *)

\* the text of a file before its first newline
FirstLineOf(content) ==
    LET nl == {i \in DOMAIN content : content[i] = "\n"}
    IN  IF nl = {} THEN content
        ELSE SubSeq(content, 1, (CHOOSE i \in nl : \A k \in nl : i <= k) - 1)

\* the text after the last ":" of a line, the whole line when it has none
LastColonField(line) ==
    LET colons == {i \in DOMAIN line : line[i] = ":"}
    IN  IF colons = {} THEN line
        ELSE SubSeq(line, (CHOOSE i \in colons : \A k \in colons : k <= i) + 1, Len(line))

\* a line from its first to its last character that is not whitespace
WithoutSurroundingSpace(line) ==
    LET ink == {i \in DOMAIN line : line[i] \notin {" ", "\n"}}
    IN  IF ink = {} THEN <<>>
        ELSE SubSeq(line, CHOOSE i \in ink : \A k \in ink : i <= k,
                          CHOOSE i \in ink : \A k \in ink : k <= i)

\* the constructor has returned a configuration
Constructed == pc \notin {"new", "ABORTED"} \/ (pc = "ABORTED" /\ trace # <<>>)

\* C4 as claimed: a password in the connection properties is kept and the
\* secrets file is not read; otherwise the password is the last
\* ':'-separated field of the first line of the secrets file.
C4_PasswordIsLastFieldOfFirstLine ==
    Constructed =>
        IF psql_file.has_password
        THEN psql_config.password = psql_file.password /\ ~file_opened
        ELSE /\ file_opened
             /\ psql_config.password = LastColonField(FirstLineOf(passfile.content))

\* C4 as amended: a password in the connection properties is kept and the
\* secrets file is not read; otherwise the password is the last
\* ':'-separated field of the first line of the secrets file once the
\* whitespace at both ends of that line is removed.
C4_PasswordIsLastFieldOfStrippedLine ==
    Constructed =>
        /\ psql_config.has_password
        /\ IF psql_file.has_password
           THEN psql_config.password = psql_file.password /\ ~file_opened
           ELSE /\ file_opened
                /\ psql_config.password
                     = LastColonField(WithoutSurroundingSpace(FirstLineOf(passfile.content)))

\* the secrets file 'u:p' was read and gave 'p'
C4_Witness ==
    /\ Constructed
    /\ ~psql_file.has_password
    /\ file_opened
    /\ passfile.content = <<"u", ":", "p">>
    /\ psql_config.password = <<"p">>

\* C5: with no password in the connection properties and the secrets file
\* absent or empty, the constructor fails with an error that leaves the
\* program, and no stage has started.
C5_MissingCredentialFails ==
    (/\ pc # "new"
     /\ ~psql_file.has_password
     /\ (~passfile.exists \/ passfile.content = <<>>))
        => pc = "ABORTED" /\ error # "" /\ trace = <<>>

StageEvents ==
    << <<"SOURCE_READ", "start">>, <<"SOURCE_READ", "end">>,
       <<"TRANSFORM", "start">>, <<"TRANSFORM", "end">>,
       <<"SINK_WRITE", "start">>, <<"SINK_WRITE", "end">> >>

IsPrefix(s, t) == Len(s) <= Len(t) /\ s = SubSeq(t, 1, Len(s))

\* C6: the stages run in the order source read, transform, sink write, each
\* at most once and each only after the one before it has ended; a run that is
\* done has run each exactly once and has written the sink once.
C6_LinearStages ==
    /\ IsPrefix(trace, StageEvents)
    /\ pc \in {"new", "INIT"} => trace = <<>>
    /\ pc = "SOURCE_READ" => trace = SubSeq(StageEvents, 1, 2)
    /\ pc = "TRANSFORM" => trace = SubSeq(StageEvents, 1, 4)
    /\ pc = "DONE" => trace = StageEvents /\ Len(table) = 1
    /\ pc # "DONE" => table = <<>>

\* a run that went through the three stages
C6_Witness == pc = "DONE" /\ trace = StageEvents /\ table = <<data>>

\* C7: a failure leaves the program at once: the stage that failed has not
\* ended and was entered once, nothing was started after it, the run is
\* never done, and the sink is written only when the three stages succeeded.
C7_FailFast ==
    /\ error # "" =>
         /\ pc = "ABORTED"
         /\ trace # <<>> => trace[Len(trace)][2] = "start"
         /\ \A i \in DOMAIN trace, k \in DOMAIN trace : trace[i] = trace[k] => i = k
         /\ \A i \in 1..(Len(trace) - 1) :
              trace[i][2] = "start" => trace[i + 1] = <<trace[i][1], "end">>
         /\ table = <<>>
    /\ pc = "ABORTED" => error # ""
    /\ table # <<>> => error = "" /\ pc = "DONE"

\* the transform failed after the source read had succeeded
C7_Witness ==
    /\ error = "TransformError"
    /\ pc = "ABORTED"
    /\ trace = SubSeq(StageEvents, 1, 3)
    /\ table = <<>>

\* a key the program reads is not in its configuration file
ConfigKeyMissing ==
    \/ ~(S3Keys \subseteq s3_file)
    \/ ~((UrlKeys \cup SinkKeys) \subseteq psql_file.keys)
    \/ (~psql_file.has_password /\ "passfile" \notin psql_file.keys)

\* C8: when a configuration key is missing no stage is ever started.
C8_MissingKeyStopsBeforeAnyStage == ConfigKeyMissing => trace = <<>>

==========================================================================
